---- MODULE Spec2Model ----
(***************************************************************************)
(* Kepka token platform: the transaction / gasless-sponsorship recorder,   *)
(* the policy checks of the sponsor handlers, the transaction status       *)
(* endpoint and the payment webhook reconciler, as state machines over the *)
(* tables of the hosted database.                                          *)
(*                                                                         *)
(* The sponsor handlers are cut at their awaits: one action per database   *)
(* round trip, so that requests interleave exactly where the runtime lets  *)
(* them. A handler with a single write is a single action.                 *)
(* Time is counted in minutes and advances in ticks far longer than a      *)
(* request; a request starts and ends inside one tick.                     *)
(***************************************************************************)
EXTENDS Integers, Sequences, FiniteSets, TLC

\* ------------------------------------------------------------------ bounds
MaxTokens == 1
MaxTx == 1
MaxRows == 2
MaxTicks == 2
MaxOps == 2
MaxWallets == 1
MaxSigners == 3

\* ------------------------------------------------------- program constants
ExpiryMinutes == 30
MinutesPerHour == 60
InitialSupply == 1

\* ------------------------------------------------------------ input sets
Users == {"u1", "u2"}
Procs == {"p1", "p2"}
Handlers == {"express", "next"}
Fees == {2}
TxTypes == {"mint", "burn", "transfer"}
TxStatuses == {"pending", "confirmed", "failed"}
\* <<total_supply, decimals>> of a token request; -1 stands for an omitted field
TokenInputs == {<<-1, -1>>, <<5, 0>>}
Intents == {"pi1", "pi2"}
Subscriptions == {"sub1", "sub2"}
PolicyInputs ==
  { [policy_type |-> "rate_limit",
     policy_config |-> [hours |-> 1, max_transactions |-> 1]] }
  \cup
  { [policy_type |-> "amount_limit", policy_config |-> [max_amount |-> m]] : m \in {0, 1, 2} }

VARIABLES
  now,           \* wall clock, minutes
  tokens,        \* table tokens: row id = index
  transactions,  \* table transactions
  policies,      \* table security_policies: a set of rows, the id left out
  gasless,       \* table gasless_transactions
  emitted,       \* realtime events pushed so far
  call,          \* the sponsor requests in flight, one slot per connection
  lastRead,      \* body of the response just sent, when it was a GET's
  payment_transactions,  \* table payment_transactions: a set of rows
  user_subscriptions,    \* table user_subscriptions: a set of rows
  lastEvent,     \* the webhook event just answered, and whether it was a redelivery
  reply,         \* the response just sent by a handler with a single write
  intents,       \* the gateway's payment intents and their create-intent requests
  loaded,        \* the token the mint/burn interface was rendered with
  timers,        \* the confirmation callbacks the interface has scheduled
  audit_logs,    \* table audit_logs: a set of rows
  guard,         \* the request the policy middleware is working on
  multi_sig_wallets,   \* table multi_sig_wallets: row id = index
  wallet_signers,      \* table wallet_signers
  msig,                \* the multi-sig requests in flight, one slot per connection
  wallet_connections,  \* table wallet_connections: a set of rows
  conn                 \* the wallet-connection requests in flight

appVars == <<now, tokens, transactions, policies, gasless, emitted, call, lastRead, reply>>
payVars == <<payment_transactions, user_subscriptions, lastEvent, intents>>
uiVars == <<loaded, timers>>
guardVars == <<audit_logs, guard>>
secVars == <<multi_sig_wallets, wallet_signers, msig, wallet_connections, conn>>
vars == <<appVars, payVars, uiVars, guardVars, secVars>>

\* ------------------------------------------------------------------ helpers
Max(S) == CHOOSE x \in S : \A y \in S : y <= x

\* every order in which a SELECT without ORDER BY may return the rows
Orders(rows) ==
  { s \in [1..Cardinality(rows) -> rows] : \A i, j \in DOMAIN s : i # j => s[i] # s[j] }

NoResp == [status |-> 0, error |-> ""]

NoEvent ==
  [type |-> "", id |-> "", customer |-> "", status |-> "", cancel_at_period_end |-> FALSE]

NoDelivery == [event |-> NoEvent, redelivery |-> FALSE, status |-> 0]

NoIntent == [pc |-> "none", user |-> ""]

NoToken == [id |-> 0, total_supply |-> 0]

IdleGuard == [pc |-> "idle", user |-> "", kind |-> "", ip |-> "", pols |-> <<>>,
              outcome |-> "", failed |-> FALSE]

IdleSig ==
  [pc |-> "idle", user |-> "", wallet |-> 0, address |-> "", required |-> 0,
   total |-> 0, signers |-> <<>>, resp |-> NoResp]

IdleConn ==
  [pc |-> "idle", user |-> "", address |-> "", is_primary |-> FALSE, resp |-> NoResp]

IdleCall ==
  [pc |-> "idle", handler |-> "express", user |-> "u1", tx |-> 0, fee |-> 0,
   pols |-> <<>>, nonce |-> 0, resp |-> NoResp, readFailed |-> FALSE]

InFlight(p) == call[p].pc # "idle"

\* a response stays on its connection until the next request is served
Settled == [p \in Procs |-> IF InFlight(p) THEN call[p] ELSE IdleCall]

Init ==
  /\ now = 0
  /\ tokens = <<>>
  /\ transactions = <<>>
  /\ policies = {}
  /\ gasless = <<>>
  /\ emitted = {}
  /\ call = [p \in Procs |-> IdleCall]
  /\ lastRead = {}
  /\ payment_transactions = {}
  /\ user_subscriptions = {}
  /\ lastEvent = NoDelivery
  /\ reply = NoResp
  /\ intents = [pi \in Intents |-> NoIntent]
  /\ loaded = NoToken
  /\ timers = {}
  /\ audit_logs = {}
  /\ guard = IdleGuard
  /\ multi_sig_wallets = <<>>
  /\ wallet_signers = <<>>
  /\ msig = [p \in Procs |-> IdleSig]
  /\ wallet_connections = {}
  /\ conn = [p \in Procs |-> IdleConn]

\* the clock: a tick of one hour, between requests
Tick ==
  /\ now < MaxTicks * MinutesPerHour
  /\ \A p \in Procs : ~InFlight(p)
  /\ now' = now + MinutesPerHour
  /\ lastRead' = {}
  /\ reply' = NoResp
  /\ call' = Settled
  /\ UNCHANGED <<tokens, transactions, policies, gasless, emitted>>
  /\ UNCHANGED <<payVars, uiVars, guardVars, secVars>>

\* ------------------------------------------------- tokens and transactions
\* (mutant) `value || fallback`: a supplied 0 is replaced too
DefaultFalsy(value, fallback) ==
  IF value = -1 \/ value = 0 THEN fallback ELSE value

\* `const { decimals = 6, total_supply = 0 } = req.body`: the default stands
\* in for a field that was omitted (modelled as -1) and for nothing else
Default(value, fallback) ==
  IF value = -1 THEN fallback ELSE value

\* (mutant) io.emit(...) to every connected socket
BroadcastChannel(u) == "all"

\* io.to(`user-${req.user.id}`): the room of the acting user
UserChannel(u) == u

\* POST /api/tokens: one insert; 201 and the realtime event, or 400 when the
\* insert fails
CreateToken(u, supply, decimals, ok) ==
  /\ Len(tokens) < MaxTokens
  /\ IF ok
       THEN /\ tokens' = Append(tokens,
                 [creator_id |-> u,
                  decimals |-> Default(decimals, 6),
                  total_supply |-> Default(supply, 0)])
            /\ emitted' = emitted \cup
                 {[channel |-> UserChannel(u), event |-> "token-created", id |-> Len(tokens) + 1]}
            /\ reply' = [status |-> 201, error |-> ""]
       ELSE /\ UNCHANGED <<tokens, emitted>>
            /\ reply' = [status |-> 400, error |-> "Failed to create token"]
  /\ lastRead' = {}
  /\ call' = Settled
  /\ UNCHANGED <<now, transactions, policies, gasless>>
  /\ UNCHANGED <<payVars, uiVars, guardVars, secVars>>

\* (mutant) the lookup without .eq("creator_id", req.user.id)
OwnsTokenAnyCreator(u, tid) == tid \in DOMAIN tokens

\* the token lookup of POST /api/transactions: .eq(id).eq(creator_id).single()
OwnsToken(u, tid) == tid \in DOMAIN tokens /\ tokens[tid].creator_id = u

\* POST /api/transactions: the ownership lookup (404 when it finds no row or
\* fails), then one insert in status pending (400 when it fails), then the
\* realtime event and 201
CreateTransaction(u, tid, type, amount, readOk, ok) ==
  /\ Len(transactions) < MaxTx
  /\ IF ~(readOk /\ OwnsToken(u, tid))
       THEN /\ UNCHANGED <<transactions, emitted>>
            /\ reply' = [status |-> 404, error |-> "Token not found"]
       ELSE IF ok
         THEN /\ transactions' = Append(transactions,
                   [user_id |-> u, token_id |-> tid, transaction_type |-> type,
                    tx_hash |-> Len(transactions) + 1,
                    amount |-> amount, status |-> "pending", updated_at |-> now])
              /\ emitted' = emitted \cup
                   {[channel |-> UserChannel(u), event |-> "transaction-created",
                     id |-> Len(transactions) + 1]}
              /\ reply' = [status |-> 201, error |-> ""]
         ELSE /\ UNCHANGED <<transactions, emitted>>
              /\ reply' = [status |-> 400, error |-> "Failed to create transaction"]
  /\ lastRead' = {}
  /\ call' = Settled
  /\ UNCHANGED <<now, tokens, policies, gasless>>
  /\ UNCHANGED <<payVars, uiVars, guardVars, secVars>>

\* an update that writes the whole row back from the request body
StatusUpdateWholeRow(row, status) ==
  [row EXCEPT !.status = status, !.updated_at = now, !.amount = 0]

\* .update({ status, updated_at: new Date().toISOString() })
StatusUpdate(row, status) ==
  [row EXCEPT !.status = status, !.updated_at = now]

\* PATCH /api/transactions/:id/status: one update of the row with this id
\* and this owner, whatever its present status; 404 when no row matches
PatchStatus(u, id, status, ok) ==
  /\ status \in TxStatuses
  /\ IF ok /\ id \in DOMAIN transactions /\ transactions[id].user_id = u
       THEN /\ transactions' = [transactions EXCEPT ![id] = StatusUpdate(@, status)]
            /\ emitted' = emitted \cup
                 {[channel |-> UserChannel(u), event |-> "transaction-updated", id |-> id]}
            /\ reply' = [status |-> 200, error |-> ""]
       ELSE /\ UNCHANGED <<transactions, emitted>>
            /\ reply' = [status |-> 404, error |-> "Transaction not found"]
  /\ lastRead' = {}
  /\ call' = Settled
  /\ UNCHANGED <<now, tokens, policies, gasless>>
  /\ UNCHANGED <<payVars, uiVars, guardVars, secVars>>

\* the row POST /api/gasless/policies inserts: is_active true
PolicyRow(u, pol) ==
  [user_id |-> u, policy_type |-> pol.policy_type,
   policy_config |-> pol.policy_config, is_active |-> TRUE]

\* POST /api/gasless/policies: one insert (a user does not repeat a policy
\* already in force)
CreatePolicy(u, pol) ==
  /\ PolicyRow(u, pol) \notin policies
  /\ policies' = policies \cup {PolicyRow(u, pol)}
  /\ lastRead' = {}
  /\ reply' = NoResp
  /\ call' = Settled
  /\ UNCHANGED <<now, tokens, transactions, gasless, emitted>>
  /\ UNCHANGED <<payVars, uiVars, guardVars, secVars>>

\* ------------------------------------------------------ sponsor: the reads
\* select * from security_policies where user_id = u and is_active
ActivePolicies(u) ==
  { r \in policies : r.user_id = u /\ r.is_active }

\* select id from gasless_transactions where user_id = u and created_at >= cutoff
RecentCount(u, hours) ==
  Cardinality({ i \in DOMAIN gasless :
                  /\ gasless[i].user_id = u
                  /\ gasless[i].created_at >= now - hours * MinutesPerHour })

\* (mutant) the maximum taken over every user's rows
GenerateTransactionNonceGlobal(u) ==
  (IF gasless = <<>> THEN 0 ELSE Max({ gasless[i].nonce : i \in DOMAIN gasless })) + 1

\* generate_transaction_nonce: COALESCE(MAX(nonce), 0) + 1 over the user's rows
GenerateTransactionNonce(u) ==
  LET mine == { gasless[i].nonce : i \in { j \in DOMAIN gasless : gasless[j].user_id = u } }
  IN  (IF mine = {} THEN 0 ELSE Max(mine)) + 1

\* (mutant) the table with UNIQUE (user_id, nonce)
GaslessConstraintsUnique(row) ==
  /\ row.status \in {"pending", "sponsored", "executed", "failed"}
  /\ \A i \in DOMAIN gasless :
       ~(gasless[i].user_id = row.user_id /\ gasless[i].nonce = row.nonce)

\* the constraints of table gasless_transactions a new row must meet:
\* status is one of the four CHECK values; nothing is UNIQUE but the id
GaslessConstraints(row) ==
  row.status \in {"pending", "sponsored", "executed", "failed"}

\* ---------------------------------------------------- sponsor: the handler
\* every failure answered from the handler's catch block
RespondOpaque(p, status, error) ==
  [IdleCall EXCEPT !.resp =
     IF status = 200 THEN [status |-> 200, error |-> ""]
                     ELSE [status |-> 500, error |-> "Internal server error"]]

\* res.status(status).json({ error }) / NextResponse.json({ error }, { status })
Respond(p, status, error) ==
  [IdleCall EXCEPT !.resp = [status |-> status, error |-> error]]

\* a request arrives: POST /api/gasless/sponsor {transaction_id, estimated_fee}
SponsorBegin(p, h, u, tx, fee) ==
  /\ ~InFlight(p)
  /\ Len(gasless) + Cardinality({ q \in Procs : InFlight(q) }) < MaxRows
  /\ call' = [call EXCEPT ![p] =
       [pc |-> "tx", handler |-> h, user |-> u, tx |-> tx, fee |-> fee,
        pols |-> <<>>, nonce |-> 0, resp |-> NoResp, readFailed |-> FALSE]]
  /\ lastRead' = {}
  /\ reply' = NoResp
  /\ UNCHANGED <<now, tokens, transactions, policies, gasless, emitted>>
  /\ UNCHANGED <<payVars, uiVars, guardVars, secVars>>

\* a lookup by id alone, without `.eq("user_id", userId)`
OwnsTransactionAny(u, id) == id \in DOMAIN transactions

\* .eq("id", transaction_id).eq("user_id", userId).single()
OwnsTransaction(u, id) ==
  /\ id \in DOMAIN transactions
  /\ transactions[id].user_id = u

\* the transaction exists and belongs to the caller, else 404
SponsorReadTx(p, ok) ==
  /\ call[p].pc = "tx"
  /\ LET c == call[p]
         found == ok /\ OwnsTransaction(c.user, c.tx)
     IN  call' = [call EXCEPT ![p] =
           IF found THEN [c EXCEPT !.pc = "policies"]
                    ELSE Respond(p, 404, "Transaction not found")]
  /\ lastRead' = {}
  /\ reply' = NoResp
  /\ UNCHANGED <<now, tokens, transactions, policies, gasless, emitted>>
  /\ UNCHANGED <<payVars, uiVars, guardVars, secVars>>

\* the active policies of the caller; a failed read leaves `policies || []`
SponsorReadPolicies(p, ok) ==
  /\ call[p].pc = "policies"
  /\ \E order \in Orders(ActivePolicies(call[p].user)) :
       LET c == call[p]
           got == IF ok THEN order ELSE <<>>
       IN  call' = [call EXCEPT ![p] =
             [c EXCEPT !.pols = got,
                       !.readFailed = ~ok,
                       !.pc = IF got = <<>> THEN "nonce" ELSE "loop"]]
  /\ lastRead' = {}
  /\ reply' = NoResp
  /\ UNCHANGED <<now, tokens, transactions, policies, gasless, emitted>>
  /\ UNCHANGED <<payVars, uiVars, guardVars, secVars>>

\* the decision of one turn of the policy loop, "" when the policy lets the
\* call pass: both handlers have the rate_limit branch, only the Express
\* handler has the amount_limit branch
PolicyDenial(h, pol, fee, count) ==
  IF pol.policy_type = "rate_limit"
    THEN IF count >= pol.policy_config.max_transactions
           THEN "Rate limit exceeded" ELSE ""
    ELSE IF /\ pol.policy_type = "amount_limit"
            /\ h = "express"
            /\ fee > pol.policy_config.max_amount
           THEN "Amount limit exceeded" ELSE ""

\* one turn of `for (const policy of policies || [])`
SponsorCheckPolicy(p, ok) ==
  /\ call[p].pc = "loop"
  /\ LET c == call[p]
         pol == Head(c.pols)
         cfg == pol.policy_config
         rest == Tail(c.pols)
         count == IF ok THEN RecentCount(c.user, cfg.hours) ELSE 0
         next == [c EXCEPT !.pols = rest,
                           !.pc = IF rest = <<>> THEN "nonce" ELSE "loop",
                           !.readFailed = c.readFailed \/
                                          (pol.policy_type = "rate_limit" /\ ~ok)]
         denial == PolicyDenial(c.handler, pol, c.fee, count)
     IN  call' = [call EXCEPT ![p] =
           IF denial = "Rate limit exceeded" THEN Respond(p, 429, denial)
           ELSE IF denial = "Amount limit exceeded" THEN Respond(p, 400, denial)
           ELSE next]
  /\ lastRead' = {}
  /\ reply' = NoResp
  /\ UNCHANGED <<now, tokens, transactions, policies, gasless, emitted>>
  /\ UNCHANGED <<payVars, uiVars, guardVars, secVars>>

\* rpc generate_transaction_nonce, then `nonceResult || 1`; only the Express
\* handler looks at the rpc's error
SponsorNonce(p, ok) ==
  /\ call[p].pc = "nonce"
  /\ LET c == call[p]
     IN  call' = [call EXCEPT ![p] =
           IF ok
             THEN [c EXCEPT !.nonce = GenerateTransactionNonce(c.user), !.pc = "insert"]
             ELSE IF c.handler = "express"
                    THEN Respond(p, 500, "Failed to generate nonce")
                    ELSE [c EXCEPT !.nonce = 1, !.pc = "insert"]]
  /\ lastRead' = {}
  /\ reply' = NoResp
  /\ UNCHANGED <<now, tokens, transactions, policies, gasless, emitted>>
  /\ UNCHANGED <<payVars, uiVars, guardVars, secVars>>

\* the row the handler sends to the database
SponsorRow(c) ==
  [user_id |-> c.user, transaction_id |-> c.tx, gas_fee_ada |-> c.fee, status |-> "sponsored", nonce |-> c.nonce,
   expires_at |-> now + ExpiryMinutes, created_at |-> now]

\* insert into gasless_transactions; on success the Express handler emits the
\* realtime event, and both answer 200
SponsorInsert(p, ok) ==
  /\ call[p].pc = "insert"
  /\ LET c == call[p]
         row == SponsorRow(c)
     IN  IF ok /\ GaslessConstraints(row)
           THEN /\ gasless' = Append(gasless, row)
                /\ emitted' = IF c.handler = "express"
                                THEN emitted \cup
                                       {[channel |-> UserChannel(c.user),
                                         event |-> "gasless-transaction-sponsored",
                                         id |-> Len(gasless) + 1]}
                                ELSE emitted
                /\ call' = [call EXCEPT ![p] = Respond(p, 200, "")]
           ELSE /\ UNCHANGED <<gasless, emitted>>
                /\ call' = [call EXCEPT ![p] =
                     IF c.handler = "express"
                       THEN Respond(p, 400, "Failed to sponsor transaction")
                       ELSE Respond(p, 500, "Failed to sponsor transaction")]
  /\ lastRead' = {}
  /\ reply' = NoResp
  /\ UNCHANGED <<now, tokens, transactions, policies>>
  /\ UNCHANGED <<payVars, uiVars, guardVars, secVars>>

\* ------------------------------------------------------------- the reads
\* GET /api/gasless/transactions: the caller's rows as stored
GetGaslessTransactions(u) ==
  /\ lastRead' = { gasless[i] : i \in { j \in DOMAIN gasless : gasless[j].user_id = u } }
  /\ reply' = NoResp
  /\ call' = Settled
  /\ UNCHANGED <<now, tokens, transactions, policies, gasless, emitted>>
  /\ UNCHANGED <<payVars, uiVars, guardVars, secVars>>

\* GET /api/transactions/:id: the caller's transaction joined with its
\* gasless_transactions rows as stored
GetTransaction(u, id) ==
  /\ id \in DOMAIN transactions
  /\ transactions[id].user_id = u
  /\ lastRead' = { gasless[i] : i \in { j \in DOMAIN gasless : gasless[j].transaction_id = id } }
  /\ reply' = NoResp
  /\ call' = Settled
  /\ UNCHANGED <<now, tokens, transactions, policies, gasless, emitted>>
  /\ UNCHANGED <<payVars, uiVars, guardVars, secVars>>

\* ----------------------------------------------------------------- payments
\* the gateway keeps one customer per e-mail address
CustomerOf(u) == IF u = "u1" THEN "cus1" ELSE "cus2"

\* the statuses the gateway reports for a subscription; the table's CHECK
\* does not admit `incomplete`
GatewayStatuses == {"active", "past_due", "incomplete"}
SubscriptionStatusCheck == {"active", "canceled", "past_due", "unpaid", "trialing"}

\* the webhook events whose signature verifies
Events ==
  { [type |-> t, id |-> pi, customer |-> "", status |-> "", cancel_at_period_end |-> FALSE] :
      t \in {"payment_intent.succeeded", "payment_intent.payment_failed"}, pi \in Intents }
  \cup
  { [type |-> "customer.subscription.created", id |-> sub, customer |-> CustomerOf(u),
     status |-> st, cancel_at_period_end |-> FALSE] :
      sub \in Subscriptions, u \in Users, st \in GatewayStatuses }
  \cup
  { [type |-> "customer.subscription.updated", id |-> sub, customer |-> CustomerOf(u),
     status |-> st, cancel_at_period_end |-> b] :
      sub \in Subscriptions, u \in Users, st \in GatewayStatuses, b \in BOOLEAN }
  \cup
  { [type |-> "customer.subscription.deleted", id |-> sub, customer |-> CustomerOf(u),
     status |-> "canceled", cancel_at_period_end |-> FALSE] :
      sub \in Subscriptions, u \in Users }
  \cup
  { [type |-> "invoice.paid", id |-> "", customer |-> "", status |-> "",
     cancel_at_period_end |-> FALSE] }

\* POST /api/payments/create-intent, first await: stripe.paymentIntents.create
\* makes the gateway issue intent pi; from here on the gateway may report on it
CreateIntentIssue(u, pi) ==
  /\ intents[pi].pc = "none"
  /\ intents' = [intents EXCEPT ![pi] = [pc |-> "store", user |-> u]]
  /\ lastEvent' = NoDelivery
  /\ UNCHANGED <<payment_transactions, user_subscriptions>>
  /\ UNCHANGED <<appVars, uiVars, guardVars, secVars>>

\* POST /api/payments/create-intent, second await: one insert in status
\* pending, whose error is only logged; the request then answers 200 with
\* the client secret either way
CreateIntentStore(pi, ok) ==
  /\ intents[pi].pc = "store"
  /\ payment_transactions' =
       IF ok /\ \A r \in payment_transactions : r.stripe_payment_intent_id # pi
         THEN payment_transactions \cup
                {[user_id |-> intents[pi].user, stripe_payment_intent_id |-> pi,
                  status |-> "pending", updated_at |-> now]}
         ELSE payment_transactions
  /\ intents' = [intents EXCEPT ![pi].pc = "done"]
  /\ lastEvent' = NoDelivery
  /\ UNCHANGED user_subscriptions
  /\ UNCHANGED <<appVars, uiVars, guardVars, secVars>>

\* user_subscriptions: stripe_customer_id UNIQUE, stripe_subscription_id
\* UNIQUE, status CHECK; `others` are the rows the written row must not clash with
SubscriptionConstraints(row, others) ==
  /\ row.status \in SubscriptionStatusCheck
  /\ \A r \in others :
       /\ r.stripe_customer_id # row.stripe_customer_id
       /\ r.stripe_subscription_id # row.stripe_subscription_id

\* POST /api/payments/subscriptions: the gateway creates subscription sub in
\* status st, then one upsert without a conflict target, its result not looked at
CreateSubscription(u, sub, st, ok) ==
  /\ \A r \in user_subscriptions : r.stripe_subscription_id # sub
  /\ LET row == [user_id |-> u, stripe_customer_id |-> CustomerOf(u),
                 stripe_subscription_id |-> sub, status |-> st,
                 cancel_at_period_end |-> FALSE, updated_at |-> now]
     IN  user_subscriptions' =
           IF ok /\ SubscriptionConstraints(row, user_subscriptions)
             THEN user_subscriptions \cup {row}
             ELSE user_subscriptions
  /\ lastEvent' = NoDelivery
  /\ UNCHANGED <<payment_transactions, intents>>
  /\ UNCHANGED <<appVars, uiVars, guardVars, secVars>>

\* (mutant) an update that steps a row already in the written status on to canceled
SetStatusStepping(row, status) ==
  [row EXCEPT !.status = IF row.status = status THEN "canceled" ELSE status,
              !.updated_at = now]

\* .update({ status, updated_at: new Date() }) on one row
SetStatus(row, status) ==
  [row EXCEPT !.status = status, !.updated_at = now]

\* update payment_transactions ... where stripe_payment_intent_id = pi
UpdatePayment(pi, status) ==
  { IF r.stripe_payment_intent_id = pi THEN SetStatus(r, status) ELSE r :
      r \in payment_transactions }

\* customer.subscription.created / updated: when a row of the customer
\* exists, one update of it from the event's subscription
UpdateSubscription(e) ==
  LET mine == { r \in user_subscriptions : r.stripe_customer_id = e.customer }
      others == user_subscriptions \ mine
      written == { [SetStatus(r, e.status) EXCEPT
                      !.stripe_subscription_id = e.id,
                      !.cancel_at_period_end = e.cancel_at_period_end] : r \in mine }
  IN  IF mine # {} /\ \A w \in written : SubscriptionConstraints(w, others)
        THEN others \cup written
        ELSE user_subscriptions

\* customer.subscription.deleted: update ... where stripe_subscription_id = sub
CancelSubscription(sub) ==
  { IF r.stripe_subscription_id = sub THEN SetStatus(r, "canceled") ELSE r :
      r \in user_subscriptions }

\* the payloads sent with a forged signature: one that would settle a
\* payment, one that would cancel a subscription (per intent and subscription)
ForgedPayloads ==
  { e \in Events : /\ e.type \in {"payment_intent.succeeded", "customer.subscription.deleted"}
                   /\ e.customer \in {"", "cus1"} }

\* the signatures a webhook request may carry: made with the shared webhook
\* secret, or not
Signatures == {"signed", "forged"}

\* (mutant) the payload is parsed without its signature being verified
ConstructEventUnverified(sig) == TRUE

\* stripe.webhooks.constructEvent(body, signature, webhookSecret) returns
\* the event when the signature was made with the secret, and throws otherwise
ConstructEvent(sig) == sig = "signed"

\* the catch around constructEvent: 400, before the switch is reached
WebhookRejected ==
  /\ lastEvent' = [event |-> NoEvent, redelivery |-> FALSE, status |-> 400]
  /\ UNCHANGED <<payment_transactions, user_subscriptions, intents>>
  /\ UNCHANGED <<appVars, uiVars, guardVars, secVars>>

\* POST /api/payments/webhooks, signature verified: the switch on event.type;
\* no write's result is looked at, the answer is always { received: true }
Webhook(e) ==
  /\ payment_transactions' =
       CASE e.type = "payment_intent.succeeded" -> UpdatePayment(e.id, "succeeded")
         [] e.type = "payment_intent.payment_failed" -> UpdatePayment(e.id, "failed")
         [] OTHER -> payment_transactions
  /\ user_subscriptions' =
       CASE e.type \in {"customer.subscription.created", "customer.subscription.updated"}
              -> UpdateSubscription(e)
         [] e.type = "customer.subscription.deleted" -> CancelSubscription(e.id)
         [] OTHER -> user_subscriptions
  /\ lastEvent' = [event |-> e, redelivery |-> lastEvent.event = e, status |-> 200]
  /\ UNCHANGED intents
  /\ UNCHANGED <<appVars, uiVars, guardVars, secVars>>

\* POST /api/payments/webhooks: verify, then handle
WebhookRequest(e, sig) ==
  IF ConstructEvent(sig) THEN Webhook(e) ELSE WebhookRejected

\* ------------------------------------------------ the mint/burn interface
\* amounts entered, in base units (Math.floor(amount * 10^decimals))
Amounts == {1, 2}

\* the manage page reads the caller's token and hands it to the component as
\* the `token` prop; the prop changes only when the page is loaded again
LoadInterface(u, tid) ==
  /\ OwnsToken(u, tid)
  /\ loaded' = [id |-> tid, total_supply |-> tokens[tid].total_supply]
  /\ UNCHANGED timers
  /\ UNCHANGED <<appVars, payVars, guardVars, secVars>>

\* the body of handleMint/handleBurn after validation: insert the pending
\* transaction; when that succeeds, setTimeout a callback that closes over
\* the transaction id and over `token.total_supply +/- amount` of the prop
Initiate(type, amount, ok) ==
  /\ Len(transactions) < MaxOps
  /\ IF ok
       THEN /\ transactions' = Append(transactions,
                 [user_id |-> tokens[loaded.id].creator_id, token_id |-> loaded.id,
                  transaction_type |-> type, tx_hash |-> Len(transactions) + 1,
                  amount |-> amount, status |-> "pending",
                  updated_at |-> now])
            /\ timers' = timers \cup
                 {[tx |-> Len(transactions) + 1, token |-> loaded.id, pc |-> "confirm",
                   total_supply |-> IF type = "mint" THEN loaded.total_supply + amount
                                                     ELSE loaded.total_supply - amount]}
       ELSE UNCHANGED <<transactions, timers>>
  /\ UNCHANGED loaded
  /\ UNCHANGED <<now, tokens, policies, gasless, emitted, call, lastRead, reply>>
  /\ UNCHANGED <<payVars, guardVars, secVars>>

HandleMint(amount, ok) ==
  /\ loaded # NoToken
  /\ Initiate("mint", amount, ok)

\* "Cannot burn more tokens than the total supply" is decided on the prop
HandleBurn(amount, ok) ==
  /\ loaded # NoToken
  /\ IF amount > loaded.total_supply
       THEN UNCHANGED vars
       ELSE Initiate("burn", amount, ok)

\* the callback, first await: update transactions set status = 'confirmed'
TimerConfirm(t) ==
  /\ t \in timers /\ t.pc = "confirm"
  /\ transactions' = [transactions EXCEPT ![t.tx].status = "confirmed"]
  /\ timers' = (timers \ {t}) \cup {[t EXCEPT !.pc = "supply"]}
  /\ UNCHANGED loaded
  /\ UNCHANGED <<now, tokens, policies, gasless, emitted, call, lastRead, reply>>
  /\ UNCHANGED <<payVars, guardVars, secVars>>

\* the callback, second await: update tokens set total_supply = <the value
\* computed from the prop when the operation was started>
TimerSupply(t) ==
  /\ t \in timers /\ t.pc = "supply"
  /\ tokens' = [tokens EXCEPT ![t.token].total_supply = t.total_supply]
  /\ timers' = timers \ {t}
  /\ UNCHANGED loaded
  /\ UNCHANGED <<now, transactions, policies, gasless, emitted, call, lastRead, reply>>
  /\ UNCHANGED <<payVars, guardVars, secVars>>

\* ------------------------------------- the security policy middleware
\* req.method + " " + req.path of the guarded request, and the actions the
\* audit middleware records
Kinds == {"POST /sponsor"}
Actions == {"POST /sponsor", "CREATE token"}
Addresses == {"ip1", "ip2"}
HoursPerDay == 24

\* the default policy the migration stores for every profile
DefaultMaxTransactions == 10
DefaultRateLimit ==
  [policy_type |-> "rate_limit",
   policy_config |-> [hours |-> 1, max_transactions |-> DefaultMaxTransactions]]

\* policies the middleware knows: the seeded default, a rate limit with the
\* field the middleware reads, a time lock and an address whitelist
GuardPolicyInputs ==
  { DefaultRateLimit,
    [policy_type |-> "rate_limit", policy_config |-> [hours |-> 1, max_requests |-> 1]],
    [policy_type |-> "time_lock", policy_config |-> [allowed_hours |-> {0}]],
    [policy_type |-> "whitelist", policy_config |-> [allowed_ips |-> {"ip1"}]] }

\* auditLog(action, resourceType): one insert, its failure only logged
AuditLog(u, action, ok) ==
  /\ guard.pc \in {"idle", "done"}
  /\ Cardinality(audit_logs) < MaxRows
  /\ audit_logs' = IF ok
       THEN audit_logs \cup {[id |-> Cardinality(audit_logs) + 1, user_id |-> u,
                              action |-> action, created_at |-> now]}
       ELSE audit_logs
  /\ UNCHANGED guard
  /\ UNCHANGED <<appVars, payVars, uiVars, secVars>>

\* select id from audit_logs where user_id, action and created_at >= hoursAgo
RecentRequests(u, kind, hours) ==
  { r \in audit_logs : /\ r.user_id = u
                       /\ r.action = kind
                       /\ r.created_at >= now - hours * MinutesPerHour }

\* validatePolicy: `ok` is the result of the audit_logs read, whose data is
\* null when it fails; `n < undefined` is false
ValidatePolicy(pol, g, ok) ==
  LET cfg == pol.policy_config
  IN  CASE pol.policy_type = "rate_limit" ->
             LET n == IF ok THEN Cardinality(RecentRequests(g.user, g.kind, cfg.hours))
                            ELSE 0
             IN  "max_requests" \in DOMAIN cfg /\ n < cfg.max_requests
        [] pol.policy_type = "time_lock" ->
             ((now \div MinutesPerHour) % HoursPerDay) \in cfg.allowed_hours
        [] pol.policy_type = "whitelist" -> g.ip \in cfg.allowed_ips
        [] OTHER -> TRUE

\* a request reaches validateSecurityPolicies; without req.user it passes
GuardBegin(u, kind, ip) ==
  /\ guard.pc \in {"idle", "done"}
  /\ guard' = IF u = ""
       THEN [IdleGuard EXCEPT !.pc = "done", !.kind = kind, !.ip = ip, !.outcome = "next"]
       ELSE [IdleGuard EXCEPT !.pc = "policies", !.user = u, !.kind = kind, !.ip = ip]
  /\ UNCHANGED audit_logs
  /\ UNCHANGED <<appVars, payVars, uiVars, secVars>>

\* the active policies of the user; a failed read is logged and next() called
GuardReadPolicies(ok) ==
  /\ guard.pc = "policies"
  /\ \E order \in Orders(ActivePolicies(guard.user)) :
       guard' = IF ~ok
         THEN [guard EXCEPT !.pc = "done", !.outcome = "next", !.failed = TRUE]
         ELSE IF order = <<>>
           THEN [guard EXCEPT !.pc = "done", !.outcome = "next"]
           ELSE [guard EXCEPT !.pc = "loop", !.pols = order]
  /\ UNCHANGED audit_logs
  /\ UNCHANGED <<appVars, payVars, uiVars, secVars>>

\* one turn of the loop: the first invalid policy answers 403, the policies
\* after it stay unevaluated in `pols`
GuardValidate(ok) ==
  /\ guard.pc = "loop"
  /\ LET pol == Head(guard.pols)
         rest == Tail(guard.pols)
         failed == guard.failed \/ (pol.policy_type = "rate_limit" /\ ~ok)
     IN  guard' =
           IF ~ValidatePolicy(pol, guard, ok)
             THEN [guard EXCEPT !.pc = "done", !.outcome = "403", !.failed = failed]
             ELSE IF rest = <<>>
               THEN [guard EXCEPT !.pc = "done", !.pols = rest, !.outcome = "next",
                                  !.failed = failed]
               ELSE [guard EXCEPT !.pols = rest, !.failed = failed]
  /\ UNCHANGED audit_logs
  /\ UNCHANGED <<appVars, payVars, uiVars, secVars>>

\* ------------------------------------------------------ multi-sig wallets
\* request bodies of POST /multi-sig-wallets: required_signatures,
\* total_signers and the signer addresses
WalletInputs ==
  { [required |-> 1, total |-> 1, signers |-> <<"a1">>],
    [required |-> 2, total |-> 2, signers |-> <<"a1", "a2">>],
    [required |-> 2, total |-> 2, signers |-> <<"a1", "a1">>],
    [required |-> 2, total |-> 1, signers |-> <<"a1">>],
    [required |-> 1, total |-> 2, signers |-> <<"a1">>] }
WalletAddresses == {"w1", "w2"}
SignerAddresses == {"a1", "a2"}

\* rows of multi_sig_wallets that have not been deleted
LiveWallets == { i \in DOMAIN multi_sig_wallets : ~multi_sig_wallets[i].deleted }

\* the signer rows of one wallet
SignersOf(id) == { i \in DOMAIN wallet_signers : wallet_signers[i].multi_sig_wallet_id = id }

\* UNIQUE(multi_sig_wallet_id, signer_address) over the table with the new rows
SignerConstraints(rows) ==
  \A i, j \in DOMAIN rows :
    (/\ rows[i].multi_sig_wallet_id = rows[j].multi_sig_wallet_id
     /\ rows[i].signer_address = rows[j].signer_address) => i = j

SigRespond(status, error) ==
  [IdleSig EXCEPT !.resp = [status |-> status, error |-> error]]

SigUnchanged ==
  /\ UNCHANGED <<wallet_connections, conn>>
  /\ UNCHANGED <<appVars, payVars, uiVars, guardVars>>

\* POST /multi-sig-wallets: the checks on the body, before any write
CreateWalletBegin(p, u, in, addr) ==
  /\ msig[p].pc = "idle"
  /\ Len(multi_sig_wallets) + Cardinality({ q \in Procs : msig[q].pc = "wallet" })
       < MaxWallets
  /\ msig' = [msig EXCEPT ![p] =
       IF in.required > in.total \/ Len(in.signers) # in.total
         THEN SigRespond(400, "Invalid configuration")
         ELSE [IdleSig EXCEPT !.pc = "wallet", !.user = u, !.address = addr,
                              !.required = in.required, !.total = in.total,
                              !.signers = in.signers]]
  /\ UNCHANGED <<multi_sig_wallets, wallet_signers>>
  /\ SigUnchanged

\* insert into multi_sig_wallets (wallet_address is UNIQUE)
CreateWalletInsert(p, ok) ==
  /\ msig[p].pc = "wallet"
  /\ LET c == msig[p]
         free == \A i \in LiveWallets : multi_sig_wallets[i].wallet_address # c.address
     IN  IF ok /\ free
           THEN /\ multi_sig_wallets' = Append(multi_sig_wallets,
                     [user_id |-> c.user, required_signatures |-> c.required,
                      total_signers |-> c.total, wallet_address |-> c.address,
                      deleted |-> FALSE])
                /\ msig' = [msig EXCEPT ![p] =
                     [c EXCEPT !.pc = "signers", !.wallet = Len(multi_sig_wallets) + 1]]
           ELSE /\ UNCHANGED multi_sig_wallets
                /\ msig' = [msig EXCEPT ![p] =
                     SigRespond(400, "Failed to create multi-sig wallet")]
  /\ UNCHANGED wallet_signers
  /\ SigUnchanged

\* insert of all signer rows in one statement; 201, or on to the rollback
CreateWalletSigners(p, ok) ==
  /\ msig[p].pc = "signers"
  /\ LET c == msig[p]
         rows == [i \in DOMAIN c.signers |->
                    [multi_sig_wallet_id |-> c.wallet, signer_address |-> c.signers[i]]]
     IN  IF ok /\ SignerConstraints(wallet_signers \o rows)
           THEN /\ wallet_signers' = wallet_signers \o rows
                /\ msig' = [msig EXCEPT ![p] = SigRespond(201, "")]
           ELSE /\ UNCHANGED wallet_signers
                /\ msig' = [msig EXCEPT ![p].pc = "rollback"]
  /\ UNCHANGED multi_sig_wallets
  /\ SigUnchanged

\* delete from multi_sig_wallets where id (its result is not looked at;
\* signer rows go with the wallet, ON DELETE CASCADE), then 400
CreateWalletRollback(p, ok) ==
  /\ msig[p].pc = "rollback"
  /\ LET c == msig[p]
     IN  IF ok
           THEN /\ multi_sig_wallets' =
                     [multi_sig_wallets EXCEPT ![c.wallet].deleted = TRUE]
                /\ wallet_signers' = SelectSeq(wallet_signers,
                     LAMBDA r : r.multi_sig_wallet_id # c.wallet)
           ELSE UNCHANGED <<multi_sig_wallets, wallet_signers>>
  /\ msig' = [msig EXCEPT ![p] = SigRespond(400, "Failed to add signers")]
  /\ SigUnchanged

\* POST /multi-sig-wallets/:id/signers
AddSignerBegin(p, u, id, addr) ==
  /\ msig[p].pc = "idle"
  /\ Len(wallet_signers) + Cardinality({ q \in Procs : msig[q].pc \in {"own", "existing", "insert"} })
       < MaxSigners
  /\ msig' = [msig EXCEPT ![p] =
       [IdleSig EXCEPT !.pc = "own", !.user = u, !.wallet = id, !.address = addr]]
  /\ UNCHANGED <<multi_sig_wallets, wallet_signers>>
  /\ SigUnchanged

\* the wallet exists and belongs to the caller, else 404
AddSignerOwn(p, ok) ==
  /\ msig[p].pc = "own"
  /\ LET c == msig[p]
         found == /\ ok
                  /\ c.wallet \in LiveWallets
                  /\ multi_sig_wallets[c.wallet].user_id = c.user
     IN  msig' = [msig EXCEPT ![p] =
           IF found THEN [c EXCEPT !.pc = "existing"]
                    ELSE SigRespond(404, "Wallet not found")]
  /\ UNCHANGED <<multi_sig_wallets, wallet_signers>>
  /\ SigUnchanged

\* the read of a row with this wallet and address: found, 409; its error
\* is not looked at
AddSignerExisting(p, ok) ==
  /\ msig[p].pc = "existing"
  /\ LET c == msig[p]
         existingSigner ==
           ok /\ \E i \in SignersOf(c.wallet) : wallet_signers[i].signer_address = c.address
     IN  msig' = [msig EXCEPT ![p] =
           IF existingSigner THEN SigRespond(409, "Signer already exists")
                             ELSE [c EXCEPT !.pc = "insert"]]
  /\ UNCHANGED <<multi_sig_wallets, wallet_signers>>
  /\ SigUnchanged

\* insert of the signer row: 201, or 400 when the insert fails
AddSignerInsert(p, ok) ==
  /\ msig[p].pc = "insert"
  /\ LET c == msig[p]
         row == [multi_sig_wallet_id |-> c.wallet, signer_address |-> c.address]
     IN  IF ok /\ c.wallet \in LiveWallets /\ SignerConstraints(Append(wallet_signers, row))
           THEN /\ wallet_signers' = Append(wallet_signers, row)
                /\ msig' = [msig EXCEPT ![p] = SigRespond(201, "")]
           ELSE /\ UNCHANGED wallet_signers
                /\ msig' = [msig EXCEPT ![p] = SigRespond(400, "Failed to add signer")]
  /\ UNCHANGED multi_sig_wallets
  /\ SigUnchanged

\* ----------------------------------------------------- wallet connections
ConnAddresses == {"c1", "c2"}

\* UNIQUE(user_id, wallet_address)
ConnectionConstraints(row) ==
  \A r \in wallet_connections :
    ~(r.user_id = row.user_id /\ r.wallet_address = row.wallet_address)

ConnRespond(status, error) ==
  [IdleConn EXCEPT !.resp = [status |-> status, error |-> error]]

ConnUnchanged ==
  /\ UNCHANGED <<multi_sig_wallets, wallet_signers, msig>>
  /\ UNCHANGED <<appVars, payVars, uiVars, guardVars>>

\* POST /api/users/wallet-connections {wallet_address, is_primary = false}
ConnBegin(p, u, addr, primary) ==
  /\ conn[p].pc = "idle"
  /\ conn' = [conn EXCEPT ![p] =
       [IdleConn EXCEPT !.pc = IF primary THEN "unset" ELSE "insert",
                        !.user = u, !.address = addr, !.is_primary = primary]]
  /\ UNCHANGED wallet_connections
  /\ ConnUnchanged

\* update wallet_connections set is_primary = false where user_id; its
\* result is not looked at
ConnUnset(p, ok) ==
  /\ conn[p].pc = "unset"
  /\ wallet_connections' = IF ok
       THEN { IF r.user_id = conn[p].user THEN [r EXCEPT !.is_primary = FALSE] ELSE r :
                r \in wallet_connections }
       ELSE wallet_connections
  /\ conn' = [conn EXCEPT ![p].pc = "insert"]
  /\ ConnUnchanged

\* insert of the connection: 201, or 400 when the insert fails
ConnInsert(p, ok) ==
  /\ conn[p].pc = "insert"
  /\ LET c == conn[p]
         row == [user_id |-> c.user, wallet_address |-> c.address,
                 is_primary |-> c.is_primary]
     IN  IF ok /\ ConnectionConstraints(row)
           THEN /\ wallet_connections' = wallet_connections \cup {row}
                /\ conn' = [conn EXCEPT ![p] = ConnRespond(201, "")]
           ELSE /\ UNCHANGED wallet_connections
                /\ conn' = [conn EXCEPT ![p] =
                     ConnRespond(400, "Failed to add wallet connection")]
  /\ ConnUnchanged

\* --------------------------------------------------------- specifications
\* two users who each created a token and a pending mint of it through
\* POST /api/tokens and POST /api/transactions
Seeded(P) ==
  /\ now = 0
  /\ tokens = [i \in 1..2 |->
       [creator_id |-> IF i = 1 THEN "u1" ELSE "u2", decimals |-> 6, total_supply |-> 0]]
  /\ transactions = [i \in 1..2 |->
       [user_id |-> IF i = 1 THEN "u1" ELSE "u2", token_id |-> i,
        transaction_type |-> "mint", tx_hash |-> i, amount |-> 1, status |-> "pending",
        updated_at |-> 0]]
  /\ policies = P
  /\ gasless = <<>>
  /\ emitted = { [channel |-> tokens[i].creator_id, event |-> e, id |-> i] :
                   i \in 1..2, e \in {"token-created", "transaction-created"} }
  /\ call = [p \in Procs |-> IdleCall]
  /\ lastRead = {}
  /\ payment_transactions = {}
  /\ user_subscriptions = {}
  /\ lastEvent = NoDelivery
  /\ reply = NoResp
  /\ intents = [pi \in Intents |-> NoIntent]
  /\ loaded = NoToken
  /\ timers = {}
  /\ audit_logs = {}
  /\ guard = IdleGuard
  /\ multi_sig_wallets = <<>>
  /\ wallet_signers = <<>>
  /\ msig = [p \in Procs |-> IdleSig]
  /\ wallet_connections = {}
  /\ conn = [p \in Procs |-> IdleConn]

InitSponsor == Seeded({})

SponsorSteps(p) ==
  \/ \E ok \in BOOLEAN : SponsorReadTx(p, ok)
  \/ \E ok \in BOOLEAN : SponsorReadPolicies(p, ok)
  \/ \E ok \in BOOLEAN : SponsorCheckPolicy(p, ok)
  \/ \E ok \in BOOLEAN : SponsorNonce(p, ok)
  \/ \E ok \in BOOLEAN : SponsorInsert(p, ok)

\* one request at a time: policies are created, sponsorships requested and
\* read, and the clock moves. The first user sets policies; the second is
\* the other user of the per-user rules
Next ==
  \/ Tick
  \/ \E pol \in PolicyInputs : ~InFlight("p1") /\ CreatePolicy("u1", pol)
  \/ \E h \in Handlers, u \in Users, tx \in 1..(Len(transactions) + 1), fee \in Fees :
       SponsorBegin("p1", h, u, tx, fee)
  \/ SponsorSteps("p1")
  \/ \E u \in Users : ~InFlight("p1") /\ GetGaslessTransactions(u)
  \/ \E u \in Users, id \in DOMAIN transactions : ~InFlight("p1") /\ GetTransaction(u, id)

Spec == InitSponsor /\ [][Next]_vars

\* two connections: sponsor requests of any users in any interleaving; the
\* first user may have the hourly limit of one in force
InitRace ==
  \E P \in SUBSET {PolicyRow("u1", pol) : pol \in {q \in PolicyInputs : q.policy_type = "rate_limit"}} :
    Seeded(P)

NextRace ==
  \/ Tick
  \/ \E p \in Procs, h \in Handlers, u \in Users, tx \in 1..(Len(transactions) + 1),
          fee \in Fees :
       SponsorBegin(p, h, u, tx, fee)
  \/ \E p \in Procs : SponsorSteps(p)

SpecRace == InitRace /\ [][NextRace]_vars

\* tokens, transactions and their status, from the empty database
NextTx ==
  \/ \E u \in Users, in \in TokenInputs, ok \in BOOLEAN :
       CreateToken(u, in[1], in[2], ok)
  \/ \E u \in Users, tid \in 1..MaxTokens, type \in TxTypes, readOk, ok \in BOOLEAN :
       CreateTransaction(u, tid, type, 1, readOk, ok)
  \/ \E u \in Users, id \in 1..MaxTx, status \in TxStatuses, ok \in BOOLEAN :
       PatchStatus(u, id, status, ok)

SpecTx == Init /\ [][NextTx]_vars

\* the four handlers that emit a realtime event, one request at a time, from
\* the empty database; no policy is stored, so the sponsor call goes from the
\* policies read to the nonce
NextEmit ==
  \/ \E u \in Users, ok \in BOOLEAN :
       ~InFlight("p1") /\ CreateToken(u, -1, -1, ok)
  \/ \E u \in Users, tid \in 1..MaxTokens, readOk, ok \in BOOLEAN :
       ~InFlight("p1") /\ CreateTransaction(u, tid, "mint", 1, readOk, ok)
  \/ \E u \in Users, id \in 1..MaxTx, ok \in BOOLEAN :
       ~InFlight("p1") /\ PatchStatus(u, id, "confirmed", ok)
  \/ \E h \in Handlers, u \in Users, tx \in 1..MaxTx, fee \in Fees :
       SponsorBegin("p1", h, u, tx, fee)
  \/ \E ok \in BOOLEAN : SponsorReadTx("p1", ok)
  \/ \E ok \in BOOLEAN : SponsorReadPolicies("p1", ok)
  \/ \E ok \in BOOLEAN : SponsorNonce("p1", ok)
  \/ \E ok \in BOOLEAN : SponsorInsert("p1", ok)

SpecEmit == Init /\ [][NextEmit]_vars

\* the owner of a token of initial supply InitialSupply on its manage page:
\* mints and burns, their delayed callbacks and page loads in any order
InitMint ==
  /\ now = 0
  /\ tokens = <<[creator_id |-> "u1", decimals |-> 6, total_supply |-> InitialSupply]>>
  /\ transactions = <<>>
  /\ policies = {}
  /\ gasless = <<>>
  /\ emitted = {}
  /\ call = [p \in Procs |-> IdleCall]
  /\ lastRead = {}
  /\ payment_transactions = {}
  /\ user_subscriptions = {}
  /\ lastEvent = NoDelivery
  /\ reply = NoResp
  /\ intents = [pi \in Intents |-> NoIntent]
  /\ loaded = NoToken
  /\ timers = {}
  /\ audit_logs = {}
  /\ guard = IdleGuard
  /\ multi_sig_wallets = <<>>
  /\ wallet_signers = <<>>
  /\ msig = [p \in Procs |-> IdleSig]
  /\ wallet_connections = {}
  /\ conn = [p \in Procs |-> IdleConn]

NextMint ==
  \/ LoadInterface("u1", 1)
  \/ \E amount \in Amounts, ok \in BOOLEAN : HandleMint(amount, ok)
  \/ \E amount \in Amounts, ok \in BOOLEAN : HandleBurn(amount, ok)
  \/ \E t \in timers : TimerConfirm(t)
  \/ \E t \in timers : TimerSupply(t)

SpecMint == InitMint /\ [][NextMint]_vars

\* the middleware in front of the first user's requests: the user holds any
\* of the policies, actions are recorded, requests arrive from two addresses,
\* anonymous ones too, and the clock moves between requests
InitGuard ==
  \E P \in SUBSET {PolicyRow("u1", pol) : pol \in GuardPolicyInputs} :
    /\ now = 0
    /\ tokens = <<>>
    /\ transactions = <<>>
    /\ policies = P
    /\ gasless = <<>>
    /\ emitted = {}
    /\ call = [p \in Procs |-> IdleCall]
    /\ lastRead = {}
    /\ payment_transactions = {}
    /\ user_subscriptions = {}
    /\ lastEvent = NoDelivery
    /\ reply = NoResp
    /\ intents = [pi \in Intents |-> NoIntent]
    /\ loaded = NoToken
    /\ timers = {}
    /\ audit_logs = {}
    /\ guard = IdleGuard
    /\ multi_sig_wallets = <<>>
    /\ wallet_signers = <<>>
    /\ msig = [p \in Procs |-> IdleSig]
    /\ wallet_connections = {}
    /\ conn = [p \in Procs |-> IdleConn]

NextGuard ==
  \/ guard.pc \in {"idle", "done"} /\ Tick
  \/ \E action \in Actions, ok \in BOOLEAN : AuditLog("u1", action, ok)
  \/ \E u \in {"u1", ""}, kind \in Kinds, ip \in Addresses : GuardBegin(u, kind, ip)
  \/ \E ok \in BOOLEAN : GuardReadPolicies(ok)
  \/ \E ok \in BOOLEAN : GuardValidate(ok)

SpecGuard == InitGuard /\ [][NextGuard]_vars

\* status updates of two users' transactions, by either user, for ids that
\* exist and one that does not, while the clock moves
NextPatch ==
  \/ Tick
  \/ \E u \in Users, id \in 1..(Len(transactions) + 1), status \in TxStatuses,
         ok \in BOOLEAN :
       PatchStatus(u, id, status, ok)

SpecPatch == InitSponsor /\ [][NextPatch]_vars

\* multi-sig wallets: two connections create wallets and add signers to
\* them in any interleaving
NextSig ==
  \/ \E p \in Procs, in \in WalletInputs, addr \in WalletAddresses :
       CreateWalletBegin(p, "u1", in, addr)
  \/ \E p \in Procs, ok \in BOOLEAN : CreateWalletInsert(p, ok)
  \/ \E p \in Procs, ok \in BOOLEAN : CreateWalletSigners(p, ok)
  \/ \E p \in Procs, ok \in BOOLEAN : CreateWalletRollback(p, ok)
  \/ \E p \in Procs, u \in Users, id \in 1..MaxWallets, addr \in SignerAddresses :
       AddSignerBegin(p, u, id, addr)
  \/ \E p \in Procs, ok \in BOOLEAN : AddSignerOwn(p, ok)
  \/ \E p \in Procs, ok \in BOOLEAN : AddSignerExisting(p, ok)
  \/ \E p \in Procs, ok \in BOOLEAN : AddSignerInsert(p, ok)

SpecSig == Init /\ [][NextSig]_vars

\* wallet connections: the requests of two users on two connections in any
\* interleaving
NextConn ==
  \/ \E p \in Procs, u \in Users, addr \in ConnAddresses, primary \in BOOLEAN :
       ConnBegin(p, u, addr, primary)
  \/ \E p \in Procs, ok \in BOOLEAN : ConnUnset(p, ok)
  \/ \E p \in Procs, ok \in BOOLEAN : ConnInsert(p, ok)

SpecConn == Init /\ [][NextConn]_vars

\* payments: the first user pays (the second intent is one the gateway has
\* from elsewhere), both subscribe, and the gateway delivers events in any
\* order and any number of times; requests with a forged signature arrive too
NextPay ==
  \/ CreateIntentIssue("u1", "pi1")
  \/ \E pi \in Intents, ok \in BOOLEAN : CreateIntentStore(pi, ok)
  \/ \E u \in Users, sub \in Subscriptions, st \in GatewayStatuses, ok \in BOOLEAN :
       CreateSubscription(u, sub, st, ok)
  \/ \E e \in Events : WebhookRequest(e, "signed")
  \/ \E e \in ForgedPayloads : WebhookRequest(e, "forged")

SpecPay == Init /\ [][NextPay]_vars

\* ------------------------------------------------------------ properties
UserRows(u) == { i \in DOMAIN gasless : gasless[i].user_id = u }

\* the caller has an active rate_limit policy whose window is full
RateExceeded(u) ==
  \E r \in ActivePolicies(u) :
    /\ r.policy_type = "rate_limit"
    /\ RecentCount(u, r.policy_config.hours) >= r.policy_config.max_transactions

\* the caller has an active amount_limit policy below this amount
AmountExceeded(u, amount) ==
  \E r \in ActivePolicies(u) :
    /\ r.policy_type = "amount_limit"
    /\ amount > r.policy_config.max_amount

\* request p ends in this step / ends with success in this step
Ends(p) == InFlight(p) /\ call'[p].pc = "idle"
Succeeds(p) == Ends(p) /\ call'[p].resp.status = 200

\* C1: with one request at a time, the nonces of a user's sponsorship rows
\* are strictly increasing in the order the rows were stored, so no two rows
\* of a user share a nonce.
C1_NoncesStrictlyIncreasing ==
  \A i, j \in DOMAIN gasless :
    (i < j /\ gasless[i].user_id = gasless[j].user_id)
      => gasless[i].nonce < gasless[j].nonce

\* C3: a sponsor request of a user whose active rate_limit policy is already
\* exhausted (rows in the trailing window >= max_transactions) never ends
\* with success.
C3_RateLimitedNeverSucceeds ==
  [][\A p \in Procs : Succeeds(p) => ~RateExceeded(call[p].user)]_vars

\* C4: a request that ends with 429 stores no row, holds no nonce and emits
\* nothing; and with the policy {hours: 1, max_transactions: 1} in force and
\* one row of the user inside the hour, a request for the user's own
\* transaction is denied and the user still has exactly one row.
C4_DeniedCallChangesNothing ==
  [][\A p \in Procs :
       /\ (Ends(p) /\ call'[p].resp.status = 429)
            => /\ gasless' = gasless
               /\ emitted' = emitted
               /\ call[p].nonce = 0
       /\ (/\ Ends(p)
           /\ [user_id |-> call[p].user, policy_type |-> "rate_limit",
               policy_config |-> [hours |-> 1, max_transactions |-> 1],
               is_active |-> TRUE] \in policies
           /\ RecentCount(call[p].user, 1) = 1
           /\ Cardinality(UserRows(call[p].user)) = 1)
            => /\ call'[p].resp.status # 200
               /\ gasless' = gasless]_vars

\* C5: with an active amount_limit policy, a request for a transaction
\* whose amount is above max_amount never succeeds, and a request for a
\* transaction whose amount is at most max_amount is not refused for its
\* amount (the reads of the database all succeeding).
C5_AmountLimitBoundary ==
  [][\A p \in Procs :
       (Ends(p) /\ ~call[p].readFailed /\ call[p].tx \in DOMAIN transactions) =>
         LET amount == transactions[call[p].tx].amount
         IN  /\ AmountExceeded(call[p].user, amount) => call'[p].resp.status # 200
             /\ ~AmountExceeded(call[p].user, amount)
                  => call'[p].resp.error # "Amount limit exceeded"]_vars

\* C9: every sponsorship a GET returns whose expires_at has passed and whose
\* status is not executed is reported as failed.
C9_ExpiredReadAsFailed ==
  \A r \in lastRead :
    (r.expires_at < now /\ r.status # "executed") => r.status = "failed"

\* C10: a request during which the read of the policies or of the recent
\* rows failed never ends with success.
C10_FailedReadDenies ==
  [][\A p \in Procs : (InFlight(p) /\ call[p].readFailed) => ~Succeeds(p)]_vars

\* the realtime event of row i went out: the Express handler stored it
Announced(i) ==
  [channel |-> gasless[i].user_id, event |-> "gasless-transaction-sponsored", id |-> i]
    \in emitted

\* C2: nothing refuses a sponsorship row for its nonce: a request that has
\* reached its insert can always store its row, also when a row of the same
\* user with the same nonce is already there (no UNIQUE (user_id, nonce), no
\* retry), so two overlapping requests that read the same maximum both store.
C2_InsertNeverRefusedForNonce ==
  \A p \in Procs :
    call[p].pc = "insert" =>
      ENABLED (/\ SponsorInsert(p, TRUE)
               /\ gasless' = Append(gasless, SponsorRow(call[p]))
               /\ call'[p].resp.status = 200)

\* two rows of one user with one nonce, both stored by Express requests whose
\* nonce came from generate_transaction_nonce
C2_SharedNonceStored ==
  \E i, j \in DOMAIN gasless :
    /\ i < j
    /\ gasless[i].user_id = gasless[j].user_id
    /\ gasless[i].nonce = gasless[j].nonce
    /\ Announced(i) /\ Announced(j)

\* C7: a request that ends with success has stored exactly one row: the
\* caller's, with status sponsored, expires_at = request time + 30 minutes,
\* and nonce 1 when the caller had no row before, whatever rows others have.
C7_SuccessStoresOneRow ==
  [][\A p \in Procs :
       Succeeds(p) =>
         /\ Len(gasless') = Len(gasless) + 1
         /\ SubSeq(gasless', 1, Len(gasless)) = gasless
         /\ LET r == gasless'[Len(gasless')]
            IN  /\ r.user_id = call[p].user
                /\ r.transaction_id = call[p].tx
                /\ r.status = "sponsored"
                /\ r.expires_at = now + 30
                /\ UserRows(call[p].user) = {} => r.nonce = 1]_vars

\* the second user's first sponsorship, stored after one of the first user's
C7_FirstNonceBesideOthers ==
  /\ Len(gasless) = 2
  /\ gasless[1].user_id = "u1"
  /\ gasless[2].user_id = "u2"
  /\ gasless[2].nonce = 1
  /\ gasless[2].status = "sponsored"
  /\ gasless[2].expires_at = now + 30
  /\ \E p \in Procs : call[p].resp.status = 200

\* C8: a transaction that is confirmed or failed keeps its status in every
\* step.
C8_TerminalStatusKept ==
  [][\A i \in DOMAIN transactions :
       transactions[i].status \in {"confirmed", "failed"}
         => transactions'[i].status = transactions[i].status]_vars

\* what the claim compares of the two billing tables: the rows by their
\* gateway ids, and their statuses
BillingView ==
  [payments |-> { [id |-> r.stripe_payment_intent_id, status |-> r.status] :
                    r \in payment_transactions },
   subscriptions |-> { [customer |-> r.stripe_customer_id,
                        id |-> r.stripe_subscription_id,
                        status |-> r.status] : r \in user_subscriptions }]

\* C6: a webhook event delivered again right after it was processed changes
\* no row's status and adds or removes no row of payment_transactions and
\* user_subscriptions.
C6_RedeliveryChangesNothing ==
  [][(lastEvent.event # NoEvent /\ lastEvent'.event = lastEvent.event)
       => BillingView' = BillingView]_vars

\* an event that moved a row out of another status has been delivered a
\* second time: a failed payment, and the deletion of a subscription
C6_Redelivered ==
  /\ lastEvent.redelivery
  /\ lastEvent.event.type = "customer.subscription.deleted"
  /\ \E r \in user_subscriptions :
       /\ r.stripe_subscription_id = lastEvent.event.id
       /\ r.status = "canceled"
  /\ \E r \in payment_transactions : r.status = "failed"

\* C13: POST /api/transactions for a token that does not exist or has
\* another creator answers 404 and stores nothing; whenever the request stores
\* a transaction, it stores exactly one, in status pending, with the caller
\* as user_id, and answers 201.
C13_TransactionCreation ==
  [][\A u \in Users, tid \in 1..MaxTokens, type \in TxTypes, readOk, ok \in BOOLEAN :
       CreateTransaction(u, tid, type, 1, readOk, ok) =>
         /\ ~(tid \in DOMAIN tokens /\ tokens[tid].creator_id = u)
              => /\ reply'.status = 404
                 /\ transactions' = transactions
         /\ transactions' # transactions
              => /\ Len(transactions') = Len(transactions) + 1
                 /\ SubSeq(transactions', 1, Len(transactions)) = transactions
                 /\ transactions'[Len(transactions')].status = "pending"
                 /\ transactions'[Len(transactions')].user_id = u
                 /\ reply'.status = 201]_vars

\* a request on the first user's token was answered not-found and stored
\* nothing
C13_RefusedStoresNothing ==
  /\ reply = [status |-> 404, error |-> "Token not found"]
  /\ Len(tokens) = 1 /\ tokens[1].creator_id = "u1"
  /\ transactions = <<>>
  /\ \A e \in emitted : e.event # "transaction-created"

\* C16: a token request that is stored stores one token whose total_supply
\* is the supplied value, or 0 when omitted, whose decimals are the supplied
\* value, or 6 when omitted, and whose creator_id is the caller.
C16_TokenCreation ==
  [][\A u \in Users, in \in TokenInputs :
       CreateToken(u, in[1], in[2], TRUE) =>
         /\ Len(tokens') = Len(tokens) + 1
         /\ SubSeq(tokens', 1, Len(tokens)) = tokens
         /\ LET t == tokens'[Len(tokens')]
            IN  /\ t.creator_id = u
                /\ t.total_supply = (IF in[1] = -1 THEN 0 ELSE in[1])
                /\ t.decimals = (IF in[2] = -1 THEN 6 ELSE in[2])]_vars

\* a token stored with both fields supplied, the supplied decimals being 0
C16_SuppliedZeroDecimals ==
  /\ reply.status = 201
  /\ tokens = <<[creator_id |-> "u2", decimals |-> 0, total_supply |-> 5]>>

\* the payment_intent.succeeded event of intent pi
SucceededEvent(pi) ==
  [type |-> "payment_intent.succeeded", id |-> pi, customer |-> "", status |-> "",
   cancel_at_period_end |-> FALSE]

\* a payment_transactions row of intent pi with status succeeded
RecordedSucceeded(pi) ==
  \E r \in payment_transactions :
    r.stripe_payment_intent_id = pi /\ r.status = "succeeded"

\* C11: once the succeeded event of an intent has been processed and the
\* create-intent request of that intent has finished, whichever comes last,
\* a row of the intent with status succeeded exists: checked at the step
\* that completes the pair (the event is processed after the request
\* finished, or the request finishes right after the event was processed).
C11_SucceededIsRecorded ==
  [][\A pi \in Intents :
       /\ (intents[pi].pc = "done" /\ Webhook(SucceededEvent(pi)))
            => RecordedSucceeded(pi)'
       /\ (/\ lastEvent.event = SucceededEvent(pi)
           /\ intents[pi].pc = "store"
           /\ intents'[pi].pc = "done")
            => RecordedSucceeded(pi)']_vars

\* C12: a webhook request whose signature was not made with the shared
\* secret is answered 400 and changes no row of payment_transactions or
\* user_subscriptions, whatever event its payload holds.
C12_ForgedWebhookRejected ==
  [][\A e \in ForgedPayloads :
       WebhookRequest(e, "forged") =>
         /\ lastEvent'.status = 400
         /\ lastEvent'.event = NoEvent
         /\ payment_transactions' = payment_transactions
         /\ user_subscriptions' = user_subscriptions]_vars

\* a request was just rejected while a pending payment and an active
\* subscription are stored, which a handled event would have changed
C12_RejectedBesideRows ==
  /\ lastEvent.status = 400
  /\ \E r \in payment_transactions : r.status = "pending"
  /\ \E r \in user_subscriptions : r.status = "active"

\* C14: a sponsor call that names a transaction which does not exist or
\* belongs to another user is answered "Transaction not found" before any
\* policy is read or evaluated, stores no sponsorship and takes no nonce; and
\* every stored sponsorship carries the user_id of the owner of the
\* transaction it references.
C14_SponsorshipOfOwnTransaction ==
  /\ [](\A i \in DOMAIN gasless :
         /\ gasless[i].transaction_id \in DOMAIN transactions
         /\ gasless[i].user_id = transactions[gasless[i].transaction_id].user_id)
  /\ [](\A p \in Procs :
         call[p].pc = "tx" => call[p].pols = <<>> /\ call[p].nonce = 0)
  /\ [][\A p \in Procs :
         (/\ call[p].pc = "tx"
          /\ ~(/\ call[p].tx \in DOMAIN transactions
               /\ transactions[call[p].tx].user_id = call[p].user)
          /\ call'[p] # call[p])
         => /\ call'[p] = Respond(p, 404, "Transaction not found")
            /\ gasless' = gasless
            /\ emitted' = emitted]_vars

\* a call for a transaction of the other user was refused while the owner's
\* sponsorship of that transaction is stored
C14_RefusedBesideOwnersRow ==
  /\ \E p \in Procs : call[p].resp = [status |-> 404, error |-> "Transaction not found"]
  /\ \E i \in DOMAIN gasless : gasless[i].transaction_id = 2 /\ gasless[i].user_id = "u2"
  /\ \A i \in DOMAIN gasless : gasless[i].user_id = transactions[gasless[i].transaction_id].user_id

\* the error texts of the endpoint's not-found and server-error responses
NotFoundErrors == {"Transaction not found"}
InternalErrors == {"Internal server error", "Failed to generate nonce",
                   "Failed to sponsor transaction"}

Written(e) ==
  \/ /\ e.event = "token-created"
     /\ tokens' # tokens /\ e.id = Len(tokens')
     /\ tokens'[e.id].creator_id = e.channel
     /\ reply'.status = 201
  \/ /\ e.event = "transaction-created"
     /\ transactions' # transactions /\ e.id = Len(transactions')
     /\ transactions'[e.id].user_id = e.channel
     /\ reply'.status = 201
  \/ /\ e.event = "transaction-updated"
     /\ e.id \in DOMAIN transactions
     /\ transactions'[e.id].user_id = e.channel
     /\ reply'.status = 200
  \/ /\ e.event = "gasless-transaction-sponsored"
     /\ gasless' # gasless /\ e.id = Len(gasless')
     /\ gasless'[e.id].user_id = e.channel
     /\ \E p \in Procs : call[p].pc = "insert" /\ call'[p].resp.status = 200

RECURSIVE ConfirmedNet(_)
ConfirmedNet(n) ==
  IF n = 0 THEN 0
  ELSE ConfirmedNet(n - 1) +
       (IF transactions[n].status # "confirmed" THEN 0
        ELSE IF transactions[n].transaction_type = "mint"
               THEN transactions[n].amount
               ELSE 0 - transactions[n].amount)

\* C15: once the callbacks of the mint and burn operations started from the
\* interface have run, the token's total_supply is its initial supply plus
\* the confirmed mints minus the confirmed burns.
C15_SupplyIsInitialPlusNet ==
  timers = {} => tokens[1].total_supply = InitialSupply + ConfirmedNet(Len(transactions))

\* the request of the guard's call passes every active policy of its user
AllValidate(g) ==
  \A pol \in ActivePolicies(g.user) : ValidatePolicy(pol, g, TRUE)

\* C17: validateSecurityPolicies lets a request of a user through only if
\* every active policy of the user validates; the first failing policy
\* answers 403 and the policies after it are not evaluated; the outcome does
\* not depend on the order in which the policies were returned.
C17_PassesOnlyIfAllValidate ==
  [][(guard.pc \in {"policies", "loop"} /\ guard'.pc = "done") =>
       /\ guard'.outcome = "next" => AllValidate(guard)
       /\ guard'.outcome = "403" =>
            /\ ~ValidatePolicy(Head(guard.pols), guard, TRUE)
            /\ guard'.pols = guard.pols
       /\ guard'.outcome = "403" <=> ~AllValidate(guard)]_vars

\* the maximum a rate_limit policy is configured with
ConfiguredMax(cfg) ==
  IF "max_requests" \in DOMAIN cfg THEN cfg.max_requests ELSE cfg.max_transactions

\* C18: validatePolicy on a rate_limit policy denies exactly when the number
\* of the user's recorded actions of the same kind in the trailing window
\* (created_at >= cutoff) is at least the policy's configured maximum, the
\* seeded default {hours: 1, max_transactions: 10} included.
C18_RateLimitDeniesAtMaximum ==
  [][(/\ guard.pc = "loop"
      /\ guard' # guard
      /\ Head(guard.pols).policy_type = "rate_limit"
      /\ guard'.failed = guard.failed) =>
       LET cfg == Head(guard.pols).policy_config
       IN  guard'.outcome = "403" <=>
             Cardinality(RecentRequests(guard.user, guard.kind, cfg.hours))
               >= ConfiguredMax(cfg)]_vars

\* C25: a sponsor call whose nonce generation fails ends there in an error,
\* in either handler: it does not go on to the insert, and the stored
\* sponsorships (so the user's stored nonces) are unchanged.
C25_FailedNonceEndsCall ==
  [][\A p \in Procs :
       SponsorNonce(p, FALSE) =>
         /\ call'[p].pc = "idle"
         /\ call'[p].resp.status >= 400
         /\ gasless' = gasless]_vars

\* C21: when the database returns an error on a write (the nonce call, the
\* sponsorship insert, the transaction insert), the caller receives the
\* internal-error response (500), and no row of the request remains.
C21_WriteErrorIsInternalError ==
  [][/\ \A p \in Procs :
          (SponsorNonce(p, FALSE) \/ SponsorInsert(p, FALSE)) =>
            /\ call'[p].pc = "idle"
            /\ call'[p].resp.status = 500
            /\ gasless' = gasless
     /\ \A u \in Users, tid \in 1..MaxTokens :
          (OwnsToken(u, tid) /\ CreateTransaction(u, tid, "mint", 1, TRUE, FALSE)) =>
            /\ reply'.status = 500
            /\ transactions' = transactions]_vars

\* C22: PATCH /api/transactions/:id/status changes only status and
\* updated_at of the addressed transaction; its other fields and every other
\* transaction are unchanged; addressed to a transaction of another user (or
\* to none) it changes nothing and answers not-found.
C22_PatchChangesStatusOnly ==
  [][\A u \in Users, id \in 1..(Len(transactions) + 1), status \in TxStatuses,
        ok \in BOOLEAN :
       PatchStatus(u, id, status, ok) =>
         /\ DOMAIN transactions' = DOMAIN transactions
         /\ \A i \in DOMAIN transactions :
              /\ i # id => transactions'[i] = transactions[i]
              /\ \A f \in DOMAIN transactions[i] \ {"status", "updated_at"} :
                   transactions'[i][f] = transactions[i][f]
         /\ ~(id \in DOMAIN transactions /\ transactions[id].user_id = u) =>
              /\ transactions' = transactions
              /\ reply' = [status |-> 404, error |-> "Transaction not found"]
         /\ transactions' # transactions => reply'.status = 200]_vars

\* the first transaction was confirmed at a later hour, then the second
\* user's transaction was addressed by the first user and refused
C22_RefusedBesideUpdated ==
  /\ reply = [status |-> 404, error |-> "Transaction not found"]
  /\ transactions[1].status = "confirmed" /\ transactions[1].updated_at > 0
  /\ transactions[1].amount = 1 /\ transactions[1].tx_hash = 1
  /\ transactions[2].status = "pending" /\ transactions[2].updated_at = 0

\* C24: for a user with an active rate_limit policy, the sponsorship rows of
\* that user inside the trailing window never number more than the policy's
\* max_transactions, whatever the interleaving of the user's calls.
C24_WindowHoldsAtMostMax ==
  \A r \in policies :
    (r.is_active /\ r.policy_type = "rate_limit") =>
      RecentCount(r.user_id, r.policy_config.hours) <= r.policy_config.max_transactions

\* C26: on the same database state and the same request the Express and the
\* Next.js sponsor handler take the same decision in the policy loop; an
\* amount_limit policy that denies in one denies in the other.
C26_HandlersDecideAlike ==
  \A p \in Procs :
    call[p].pc = "loop" =>
      LET c == call[p]
          pol == Head(c.pols)
          n == IF pol.policy_type = "rate_limit"
                 THEN RecentCount(c.user, pol.policy_config.hours) ELSE 0
      IN  PolicyDenial("express", pol, c.fee, n) = PolicyDenial("next", pol, c.fee, n)

\* C27: once a payment_transactions row has status 'succeeded', no later
\* webhook event for the same payment intent changes its status.
C27_SucceededIsFinal ==
  [][\A r \in payment_transactions :
       r.status = "succeeded" =>
         \E q \in payment_transactions' :
           /\ q.stripe_payment_intent_id = r.stripe_payment_intent_id
           /\ q.status = "succeeded"]_vars

\* the address is on the wallet
OnWallet(id, addr) ==
  \E i \in SignersOf(id) : wallet_signers[i].signer_address = addr

\* C23: an add-signer request for an address that is already on the wallet
\* is answered 409 and adds no row; and under any interleaving no wallet
\* holds two signer rows with the same address.
C23_DuplicateSignerIsConflict ==
  /\ [](\A i, j \in DOMAIN wallet_signers :
         (/\ wallet_signers[i].multi_sig_wallet_id = wallet_signers[j].multi_sig_wallet_id
          /\ wallet_signers[i].signer_address = wallet_signers[j].signer_address) => i = j)
  /\ [][\A p \in Procs :
         (/\ msig[p].pc \in {"existing", "insert"}
          /\ msig'[p].pc = "idle"
          /\ OnWallet(msig[p].wallet, msig[p].address))
         => /\ msig'[p].resp.status = 409
            /\ wallet_signers' = wallet_signers]_vars

\* C29: when the signers insert of a wallet creation fails, the wallet row
\* inserted by the request is deleted: the failed request leaves no row of
\* its wallet behind.
C29_FailedCreationLeavesNoWallet ==
  [][\A p \in Procs :
       (msig[p].pc = "rollback" /\ msig'[p].pc = "idle") =>
         /\ msig'[p].resp.status = 400
         /\ msig[p].wallet \notin LiveWallets'
         /\ SignersOf(msig[p].wallet)' = {}]_vars

\* C30: with no request in flight, every multi-sig wallet has
\* 1 <= required_signatures <= total_signers and as many signer rows as its
\* total_signers.
C30_WalletShape ==
  (\A p \in Procs : msig[p].pc = "idle") =>
    \A i \in LiveWallets :
      /\ 1 <= multi_sig_wallets[i].required_signatures
      /\ multi_sig_wallets[i].required_signatures <= multi_sig_wallets[i].total_signers
      /\ Cardinality(SignersOf(i)) = multi_sig_wallets[i].total_signers

\* the user's connections marked primary
Primaries(u) == { r \in wallet_connections : r.user_id = u /\ r.is_primary }

\* no wallet-connection request is in flight
ConnQuiet == \A p \in Procs : conn[p].pc = "idle"

\* C28: after any interleaving of wallet-connection requests a user has at
\* most one connection with is_primary = true; and, a failed request leaving
\* the previous primary in place, a user who has a primary connection has
\* one after every later request.
C28_OnePrimary ==
  /\ [](\A u \in Users : Cardinality(Primaries(u)) <= 1)
  /\ \A u \in Users :
       []((ConnQuiet /\ Primaries(u) # {}) => [](ConnQuiet => Primaries(u) # {}))

====
